---- MODULE Spec2Model ----
(***************************************************************************)
(* A model of cluster.py: the deployer that turns a cluster specification  *)
(* (a YAML dictionary) into a directory tree of per-node boot artifacts.   *)
(*                                                                         *)
(* Python dictionaries are functions whose domain is the set of keys that  *)
(* are present; d[k] on an absent key is Python's KeyError.  Paths are     *)
(* tuples of path components.  File contents are kept as the structured    *)
(* documents the code serialises (the dictionaries handed to yaml.dump,    *)
(* the fields substituted into the launch-script template).                *)
(***************************************************************************)
EXTENDS Integers, Sequences, FiniteSets, TLC

VARIABLES
    conf,       \* the cluster specification as loaded from the YAML file
    host,       \* the host: which image files exist (cwd and image cache)
    settings,   \* IDeployer.settings: conf after the constructor mutated it
    fs,         \* the files and directories below the working directory
    pc,         \* position of the deploying process
    idx,        \* index of the next node of the for-loop in deploy
    result,     \* the value deploy returned: "none", "True" or "False"
    err,        \* the exception that ended the process, "none" if none
    ports,      \* the ports get_free_port has returned to the running deploy
    macs,       \* the MACs gen_mac has returned to the running deploy
    runs        \* number of times the deploy command has been started

vars == <<conf, host, settings, fs, pc, idx, result, err, ports, macs, runs>>

----------------------------------------------------------------------------
(* Bounds of the model *)

\* how often the deploy command is run against the same working directory
MaxRuns == 2
\* longest authorized-keys list of a specification
MaxKeys == 2
\* most data disks of a specification
MaxDisks == 1

\* the node counts of the specifications explored
NodeCounts == 1..2

----------------------------------------------------------------------------
(* Dictionaries *)

Has(d, k) == k \in DOMAIN d

\* d[k] = v
Put(d, k, v) == (k :> v) @@ d

\* the dictionary d without key k
Without(d, k) == [x \in DOMAIN d \ {k} |-> d[x]]

\* the keys flatten_settings copies from the cluster onto every node, in the
\* order of the tuple in the source
InheritKeys ==
    <<"clusterName", "domainName", "imagePath", "systemDiskSize",
      "dataDiskSizes", "cpu", "mem", "mtu", "gateway", "nameserver",
      "guestOs", "authorized-keys", "qemubin">>

InheritKeySet == {InheritKeys[i] : i \in 1..Len(InheritKeys)}

----------------------------------------------------------------------------
(* IDeployer.flatten_settings *)

\* FlattenKey with the precedence inverted: the cluster's value replaces the
\* node's own
FlattenKey_ClusterWins(s, node, key) ==
    IF Has(s, key) THEN Put(node, key, s[key]) ELSE Put(node, key, node[key])

\* FlattenKey merging list values: the cluster's keys are appended to the
\* list the node has
FlattenKey_Merge(s, node, key) ==
    IF ~Has(node, key) THEN Put(node, key, s[key])
    ELSE IF key = "authorized-keys" /\ Has(s, key)
         THEN Put(node, key, node[key] \o s[key])
         ELSE Put(node, key, node[key])

\* node[key] = self.settings[key] if key not in node else node[key]
\* (evaluated only when the key is at one of the two levels)
FlattenKey(s, node, key) ==
    IF ~Has(node, key) THEN Put(node, key, s[key]) ELSE Put(node, key, node[key])

\* The inner loop over the keys for one node, from key number i on.  The
\* result is [node |-> the node so far, ok |-> FALSE when a KeyError ended it].
RECURSIVE FlattenNode(_, _, _)
FlattenNode(s, node, i) ==
    IF i > Len(InheritKeys) THEN [node |-> node, ok |-> TRUE]
    ELSE LET key == InheritKeys[i] IN
         IF ~Has(node, key) /\ ~Has(s, key)
         THEN [node |-> node, ok |-> FALSE]
         ELSE FlattenNode(s, FlattenKey(s, node, key), i + 1)

\* The outer loop over the nodes, from node number n on.  The nodes are
\* mutated in place, so a KeyError leaves the earlier nodes flattened.
RECURSIVE FlattenFrom(_, _)
FlattenFrom(s, n) ==
    IF n > Len(s.nodes) THEN [settings |-> s, ok |-> TRUE]
    ELSE LET r == FlattenNode(s, s.nodes[n], 1)
             t == [s EXCEPT !.nodes[n] = r.node]
         IN IF r.ok THEN FlattenFrom(t, n + 1)
            ELSE [settings |-> t, ok |-> FALSE]

\* nodes = self.settings["nodes"] is itself a KeyError without the key
flatten_settings(s) ==
    IF ~Has(s, "nodes") THEN [settings |-> s, ok |-> FALSE]
    ELSE FlattenFrom(s, 1)

----------------------------------------------------------------------------
(* The NodeDeployer classes *)

NodeDeployerClasses ==
    {"NodeDeployer_Ubuntu", "NodeDeployer_CentOS7", "NodeDeployer_CentOS8",
     "NodeDeployer_Debian", "NodeDeployer_Alma8", "NodeDeployer_Alma9"}

\* BaseClass with Alma8 derived from CentOS7 instead of CentOS8
BaseClass_AlmaFromCentOS7(cls) ==
    CASE cls = "NodeDeployer_CentOS7" -> "NodeDeployer_Ubuntu"
      [] cls = "NodeDeployer_CentOS8" -> "NodeDeployer_CentOS7"
      [] cls = "NodeDeployer_Debian"  -> "NodeDeployer_Ubuntu"
      [] cls = "NodeDeployer_Alma8"   -> "NodeDeployer_CentOS7"
      [] cls = "NodeDeployer_Alma9"   -> "NodeDeployer_Alma8"
      [] OTHER                        -> "object"

\* class X(Base): the base class of each class statement
BaseClass(cls) ==
    CASE cls = "NodeDeployer_CentOS7" -> "NodeDeployer_Ubuntu"
      [] cls = "NodeDeployer_CentOS8" -> "NodeDeployer_CentOS7"
      [] cls = "NodeDeployer_Debian"  -> "NodeDeployer_Ubuntu"
      [] cls = "NodeDeployer_Alma8"   -> "NodeDeployer_CentOS8"
      [] cls = "NodeDeployer_Alma9"   -> "NodeDeployer_Alma8"
      [] OTHER                        -> "object"

\* the gen_ methods a class body defines itself
DefinesMethod(cls, method) ==
    \/ cls = "NodeDeployer_Ubuntu"
    \/ cls = "NodeDeployer_CentOS8"
       /\ method \in {"gen_user", "gen_meta", "gen_netconf"}

\* Python's method resolution along the single-inheritance chain: the class
\* whose body supplies `method` for an instance of cls
RECURSIVE ResolveMethod(_, _)
ResolveMethod(cls, method) ==
    IF DefinesMethod(cls, method) THEN cls
    ELSE ResolveMethod(BaseClass(cls), method)

\* the if/elif chain of deploy: the class instantiated for a guestOs value,
\* "none" for the final else: pass
NodeDeployerFor(guestOs) ==
    CASE guestOs = "Ubuntu"           -> "NodeDeployer_Ubuntu"
      [] guestOs = "Debian GNU/Linux" -> "NodeDeployer_Debian"
      [] guestOs = "CentOS7"          -> "NodeDeployer_CentOS7"
      [] guestOs = "CentOS8"          -> "NodeDeployer_CentOS8"
      [] guestOs = "Alma8"            -> "NodeDeployer_Alma8"
      [] guestOs = "Alma9"            -> "NodeDeployer_Alma9"
      [] OTHER                        -> "none"

----------------------------------------------------------------------------
(* Text helpers.  A text is a sequence of tokens or of sections. *)

\* str.strip(name, "."): a domain name is the sequence of its labels and
\* dots; leading and trailing dots are removed
RECURSIVE StripLeft(_)
StripLeft(d) == IF d # <<>> /\ Head(d) = "." THEN StripLeft(Tail(d)) ELSE d

RECURSIVE StripRight(_)
StripRight(d) ==
    IF d # <<>> /\ d[Len(d)] = "." THEN StripRight(SubSeq(d, 1, Len(d) - 1))
    ELSE d

StripDots(d) == StripRight(StripLeft(d))

\* the result of a gen_ method: the text, or the KeyError that ended it
Text(t) == [ok |-> TRUE, text |-> t]
KeyErr  == [ok |-> FALSE, text |-> <<>>]

----------------------------------------------------------------------------
(* gen_meta *)

gen_meta_Ubuntu(ns, mac) == Text(<<>>)

gen_meta_CentOS8(ns, mac) ==
    IF ~Has(ns, "ipAddress") THEN KeyErr
    ELSE Text(<<[section |-> "network-interfaces",
                 iface   |-> "eth0 inet static",
                 address |-> ns["ipAddress"],
                 netmask |-> "255.255.255.0",
                 gateway |-> ns["gateway"]]>>)

gen_meta(cls, ns, mac) ==
    IF ResolveMethod(cls, "gen_meta") = "NodeDeployer_CentOS8"
    THEN gen_meta_CentOS8(ns, mac)
    ELSE gen_meta_Ubuntu(ns, mac)

----------------------------------------------------------------------------
(* gen_user *)

\* AppendKeys inserting each key at the front of the list
RECURSIVE AppendKeys_Front(_, _)
AppendKeys_Front(list, keys) ==
    IF keys = <<>> THEN list
    ELSE AppendKeys_Front(<<Head(keys)>> \o list, Tail(keys))

\* the inner loop: every configured key is appended to the account's list
RECURSIVE AppendKeys(_, _)
AppendKeys(list, keys) ==
    IF keys = <<>> THEN list
    ELSE AppendKeys(Append(list, Head(keys)), Tail(keys))

\* for user in content["users"]: ... ssh_authorized_keys.append(key)
AddKeys(users, keys) ==
    [u \in 1..Len(users) |->
        [users[u] EXCEPT !["ssh-authorized-keys"] = AppendKeys(@, keys)]]

gen_user_Ubuntu(ns, mac) ==
    LET users == <<[name |-> "ubuntu", home |-> "/home/ubuntu",
                    shell |-> "/bin/bash", groups |-> "sudo",
                    sudo |-> "ALL=(ALL) NOPASSWD:ALL", lock_passwd |-> FALSE,
                    passwd |-> "$6$j0iQN7y/xQ7RCfkU$..."]
                     @@ ("ssh-authorized-keys" :> <<>>),
                   [name |-> "root"] @@ ("ssh-authorized-keys" :> <<>>)>>
    IN Text(<<[section |-> "yaml",
               hostname |-> ns["name"],
               fqdn |-> <<ns["name"], ".">> \o StripDots(ns["domainName"]),
               manage_etc_hosts |-> FALSE,
               ssh_pwauth |-> FALSE,
               disable_root |-> FALSE,
               users |-> AddKeys(users, ns["authorized-keys"])]>>)

\* super().gen_user(...) + os.linesep + 'bootcmd:' ...
gen_user_CentOS8(ns, mac) ==
    Text(gen_user_Ubuntu(ns, mac).text
         \o <<[section |-> "bootcmd",
               cmds |-> <<"nmcli device connect eth0">>]>>)

gen_user(cls, ns, mac) ==
    IF ResolveMethod(cls, "gen_user") = "NodeDeployer_CentOS8"
    THEN gen_user_CentOS8(ns, mac)
    ELSE gen_user_Ubuntu(ns, mac)

----------------------------------------------------------------------------
(* gen_netconf *)

gen_netconf_Ubuntu(ns, mac) ==
    IF ~Has(ns, "ipAddress") THEN KeyErr
    ELSE Text(<<[section |-> "yaml",
                 version |-> 2,
                 ethernets |->
                   [id0 |-> [match |-> [macaddress |-> mac]]
                              @@ ("set-name" :> "eth0"),
                    eth0 |-> [addresses |-> <<ns["ipAddress"]>>,
                              gateway4 |-> ns["gateway"],
                              nameservers |->
                                [addresses |-> <<ns["nameserver"]>>,
                                 search |-> <<StripDots(ns["domainName"])>>],
                              mtu |-> ns["mtu"]]]]>>)

gen_netconf_CentOS8(ns, mac) == Text(<<>>)

gen_netconf(cls, ns, mac) ==
    IF ResolveMethod(cls, "gen_netconf") = "NodeDeployer_CentOS8"
    THEN gen_netconf_CentOS8(ns, mac)
    ELSE gen_netconf_Ubuntu(ns, mac)

----------------------------------------------------------------------------
(* gen_startup_script *)

\* the loop over dataDiskSizes: one -drive/-device pair per data disk, the
\* device type defaulting to virtio-blk-pci
DataDrives(disks) ==
    [n \in 1..Len(disks) |->
        [file |-> "data" \o ToString(n) \o ".qcow2",
         id |-> n,
         device |-> IF Has(disks[n], "type") THEN disks[n]["type"]
                    ELSE "virtio-blk-pci",
         serial |-> "qemu_drive_" \o ToString(n)]]

\* Nics with the first two MACs exchanged
Nics_Swapped(mac, mac1, mac2) ==
    [mynet0 |-> [tap |-> "PUBLIC_NAME", bridge |-> "br0", mac |-> mac1],
     mynet1 |-> [tap |-> "PRIVATE_NAME", bridge |-> "br1", mac |-> mac],
     mynet2 |-> [tap |-> "PRIVATE_NAME1", bridge |-> "br1", mac |-> mac2]]

\* the three -netdev/-device pairs of the template: the tap each network
\* device is on, the bridge create_tap puts that tap on, and the MAC
Nics(mac, mac1, mac2) ==
    [mynet0 |-> [tap |-> "PUBLIC_NAME", bridge |-> "br0", mac |-> mac],
     mynet1 |-> [tap |-> "PRIVATE_NAME", bridge |-> "br1", mac |-> mac1],
     mynet2 |-> [tap |-> "PRIVATE_NAME1", bridge |-> "br1", mac |-> mac2]]

\* The port parameter is not substituted anywhere in the template.
gen_startup_script(ns, qemubin, mac, mac1, mac2, port) ==
    <<[section |-> "script",
       node |-> ns["name"],
       qemubin |-> qemubin,
       display |-> "vnc=:0,to=100",
       cpus |-> ns["cpu"],
       mem |-> ns["mem"],
       mtu |-> ns["mtu"],
       system |-> [file |-> "system.qcow2", device |-> "virtio-blk-pci"],
       cdrom |-> "cloud-init/cloud-init-provisioning.iso",
       nics |-> Nics(mac, mac1, mac2),
       boot |-> "c",
       data |-> DataDrives(ns["dataDiskSizes"]),
       daemonize |-> TRUE]>>

----------------------------------------------------------------------------
(* random_mac and get_free_port *)

\* the outcomes of the three random.randint(0x00, 0xff) calls of one
\* random_mac call that are explored (two of the 2^24)
RandIntTriples == {<<0, 0, 0>>, <<255, 255, 255>>}

\* the port numbers the kernel hands out for bind(('', 0)) that are explored
FreePorts == {32768, 32769}

\* ouis[mac_type], falling back to ouis['xen'] on KeyError
Oui(mac_type) ==
    CASE mac_type = "xen"  -> <<0, 22, 62>>
      [] mac_type = "qemu" -> <<82, 84, 0>>
      [] OTHER             -> <<0, 22, 62>>

\* "%02x" % x: the two hexadecimal digits of an octet
Hex2(x) == <<x \div 16, x % 16>>

\* ':'.join(map(lambda x: "%02x" % x, mac)): the six digit pairs in order
random_mac(mac_type, draws) ==
    LET mac == Oui(mac_type) \o draws
    IN [i \in 1..Len(mac) |-> Hex2(mac[i])]

\* NodeDeployer_Ubuntu.gen_mac
gen_mac(qemu_or_xen, draws) == random_mac(qemu_or_xen, draws)

----------------------------------------------------------------------------
(* The file system below the working directory *)

Dir == [type |-> "dir"]

Exists(f, p) == p \in DOMAIN f

\* os.mkdir(p)
Mkdir(f, p) == Put(f, p, Dir)

\* os.makedirs(p, exist_ok=True): every missing prefix of p becomes a
\* directory, what exists is left alone
MakeDirs(f, p) ==
    LET prefixes == {SubSeq(p, 1, k) : k \in 1..Len(p)}
    IN [q \in DOMAIN f \cup prefixes |-> IF q \in DOMAIN f THEN f[q] ELSE Dir]

\* open(p, 'w') / open(p, 'wb'): the file is created empty or truncated
OpenW(f, p) ==
    Put(f, p, [type |-> "file", data |-> <<>>,
               mode |-> IF Exists(f, p) THEN f[p].mode ELSE "default"])

\* f.write(text) on the open file
WriteTo(f, p, text) == [f EXCEPT ![p].data = @ \o text]

\* os.chmod(p, stat.S_IXGRP | stat.S_IXOTH | stat.S_IXUSR)
ChmodX(f, p) == [f EXCEPT ![p].mode = "--x--x--x"]

\* a file an external tool writes as a whole (created or replaced)
ToolFile(f, p, data) ==
    Put(f, p, [type |-> "file", data |-> data, mode |-> "default"])

----------------------------------------------------------------------------
(* Base-image resolution *)

\* g_settings["cloud-image-dir"]
CloudImageDir == "cloud-image-dir"

\* parse.urlparse(imagePath).scheme in ('http', 'https'); an image path is
\* the tuple of its components, a URL's first component being its scheme
IsUrl(imagePath) == Head(imagePath) \in {"http:", "https:"}

\* basenameurl
basenameurl(url) == url[Len(url)]

\* download_to: the cache path, the host afterwards, and whether
\* requests.get raised.  `fetched` is the outcome of the HTTP request.
download_to(h, url, fetched) ==
    LET filepath == <<CloudImageDir, basenameurl(url)>>
    IN IF filepath \in h.files
       THEN [path |-> filepath, host |-> h, ok |-> TRUE]
       ELSE IF fetched
            THEN [path |-> filepath,
                  host |-> [h EXCEPT !.files = @ \cup {filepath}], ok |-> TRUE]
            ELSE [path |-> filepath, host |-> h, ok |-> FALSE]

\* check_path: a path that does not exist is looked up in the image cache;
\* the ValueError is raised when the resulting string is empty
check_path(h, path) ==
    LET localpath == IF path \notin h.files THEN <<CloudImageDir>> \o path
                     ELSE path
    IN IF path \notin h.files /\ localpath = <<>>
       THEN [ok |-> FALSE, path |-> localpath]
       ELSE [ok |-> TRUE, path |-> localpath]

----------------------------------------------------------------------------
(* NodeDeployer_Ubuntu.create_node, step by step.  A run record r carries  *)
(* the file system, the host, the resolved image, the MACs drawn and the   *)
(* exception that ended the call ("none" while it is running).             *)

NodeDir(ns) == <<ns["clusterName"], ns["name"]>>
CloudInitDir(ns) == NodeDir(ns) \o <<"cloud-init">>

\* nodeName = self.node_settings["name"]
ReadSettings(r, ns) ==
    IF ~Has(ns, "name") THEN [r EXCEPT !.err = "KeyError"] ELSE r

\* download image if needed, then check_path
ResolveImage(r, ns, fetched) ==
    IF r.err # "none" THEN r
    ELSE LET imagePath == ns["imagePath"]
             dl == IF IsUrl(imagePath)
                   THEN download_to(r.host, imagePath, fetched)
                   ELSE [path |-> imagePath, host |-> r.host, ok |-> TRUE]
             cp == check_path(dl.host, dl.path)
         IN IF ~dl.ok THEN [r EXCEPT !.err = "RequestException"]
            ELSE IF ~cp.ok THEN [r EXCEPT !.host = dl.host, !.err = "ValueError"]
            ELSE [r EXCEPT !.host = dl.host, !.image = cp.path]

\* os.makedirs(cloud_init_dir, exist_ok=True)
CreateNodeDirs(r, ns) ==
    IF r.err # "none" THEN r
    ELSE [r EXCEPT !.fs = MakeDirs(@, CloudInitDir(ns))]

\* mac = self.gen_mac("qemu"); mac1 = ...; mac2 = ...
DrawMacs(r, draws) ==
    IF r.err # "none" THEN r
    ELSE [r EXCEPT !.macs = <<gen_mac("qemu", draws[1]),
                              gen_mac("qemu", draws[2]),
                              gen_mac("qemu", draws[3])>>]

\* The body shared by write_meta, write_netconf and write_user: the file is
\* opened for writing, `head` is written, then the generated text; a
\* KeyError in the generator leaves the opened file behind.
WriteGenerated(r, path, head, gen) ==
    IF r.err # "none" THEN r
    ELSE LET opened == WriteTo(OpenW(r.fs, path), path, head)
         IN IF ~gen.ok THEN [r EXCEPT !.fs = opened, !.err = "KeyError"]
            ELSE [r EXCEPT !.fs = WriteTo(opened, path, gen.text)]

write_meta(r, cls, ns) ==
    IF r.err # "none" THEN r
    ELSE WriteGenerated(r, CloudInitDir(ns) \o <<"meta-data">>, <<>>,
                        gen_meta(cls, ns, r.macs[1]))

write_netconf(r, cls, ns) ==
    IF r.err # "none" THEN r
    ELSE WriteGenerated(r, CloudInitDir(ns) \o <<"network-config">>, <<>>,
                        gen_netconf(cls, ns, r.macs[1]))

write_user(r, cls, ns) ==
    IF r.err # "none" THEN r
    ELSE WriteGenerated(r, CloudInitDir(ns) \o <<"user-data">>,
                        <<[section |-> "#cloud-config"]>>,
                        gen_user(cls, ns, r.macs[1]))

\* exe(cmd): ValueError on a non-zero exit code, which leaves no output
\* file; `ok` is the outcome of the external process
exe(r, ok, path, data) ==
    IF r.err # "none" THEN r
    ELSE IF ~ok THEN [r EXCEPT !.err = "ValueError"]
    ELSE [r EXCEPT !.fs = ToolFile(@, path, data)]

\* cloud-localds ... network-config iso user-data meta-data
PackIso(r, ns, ok) ==
    IF r.err # "none" THEN r
    ELSE exe(r, ok, CloudInitDir(ns) \o <<"cloud-init-provisioning.iso">>,
             <<[section |-> "iso",
                network |-> r.fs[CloudInitDir(ns) \o <<"network-config">>].data,
                user |-> r.fs[CloudInitDir(ns) \o <<"user-data">>].data,
                meta |-> r.fs[CloudInitDir(ns) \o <<"meta-data">>].data]>>)

\* qemu-img create -f qcow2 -F qcow2 -b localImage system.qcow2 size
CreateSystemDisk(r, ns, ok) ==
    IF r.err # "none" THEN r
    ELSE exe(r, ok, NodeDir(ns) \o <<"system.qcow2">>,
             <<[section |-> "qcow2", backing |-> r.image,
                size |-> ns["systemDiskSize"]]>>)

\* the loop over dataDiskSizes from disk i on; `fail` is the number of the
\* data disk whose qemu-img call exits non-zero, 0 when none does
RECURSIVE CreateDataDisks(_, _, _, _)
CreateDataDisks(r, ns, i, fail) ==
    IF r.err # "none" \/ i > Len(ns["dataDiskSizes"]) THEN r
    ELSE CreateDataDisks(
            exe(r, i # fail, NodeDir(ns) \o <<"data" \o ToString(i) \o ".qcow2">>,
                <<[section |-> "qcow2", size |-> ns["dataDiskSizes"][i].size]>>),
            ns, i + 1, fail)

\* write_startup_script reached also after a failed exe call, as if
\* create_node caught the ValueError and went on
write_startup_script_AfterFailure(r, ns, qemubin, port) ==
    IF r.err \notin {"none", "ValueError"} THEN r
    ELSE LET path == NodeDir(ns) \o <<"start.sh">>
         IN [r EXCEPT !.fs =
                ChmodX(WriteTo(OpenW(@, path), path,
                               gen_startup_script(ns, qemubin, r.macs[1],
                                                  r.macs[2], r.macs[3], port)),
                       path)]

\* write_startup_script: open(start.sh, 'wb'), write, chmod.  Opening an
\* existing start.sh, which chmod left without write permission, is refused
\* to anyone but root.
write_startup_script(r, ns, qemubin, port) ==
    IF r.err # "none" THEN r
    ELSE LET path == NodeDir(ns) \o <<"start.sh">>
         IN IF Exists(r.fs, path) /\ r.fs[path].mode = "--x--x--x" /\ ~r.host.root
            THEN [r EXCEPT !.err = "PermissionError"]
            ELSE [r EXCEPT !.fs =
                    ChmodX(WriteTo(OpenW(@, path), path,
                                   gen_startup_script(ns, qemubin, r.macs[1],
                                                      r.macs[2], r.macs[3], port)),
                           path)]

\* the run record at the entry of create_node
EnterCreateNode(f, h) ==
    [fs |-> f, host |-> h, image |-> <<>>, macs |-> <<>>, err |-> "none"]

\* create_node up to the node directory: settings read, image resolved,
\* directories made.  `fetched` is what the download does during the call.
PrepareNode(r, ns, fetched) ==
    CreateNodeDirs(ResolveImage(ReadSettings(r, ns), ns, fetched), ns)

\* create_node from the MACs to user-data; `draws` is what the random
\* generator returns during the call
WriteCloudInit(r, cls, ns, draws) ==
    write_user(write_netconf(write_meta(DrawMacs(r, draws), cls, ns), cls, ns),
               cls, ns)

\* the three kinds of exe call of create_node; `fail` is the number of the
\* first call that exits non-zero, 0 when none does
BuildImages(r, ns, fail) ==
    CreateDataDisks(CreateSystemDisk(PackIso(r, ns, fail # 1), ns, fail # 2),
                    ns, 1, fail - 2)

----------------------------------------------------------------------------
(* The deploy command: cmd_deploy, the Deployer constructors and deploy *)

\* the constructor cmd_deploy picks for the host's distribution, as the
\* qemubin it stores; "none" where cmd_deploy calls usage and exits
DeployerQemubin(dist) ==
    CASE dist = "Ubuntu"                   -> "qemu-system-x86_64"
      [] dist \in {"CentOS Stream", "rocky"} -> "/usr/libexec/qemu-kvm"
      [] dist = "Debian GNU/Linux"         -> "qemu-system-x86_64"
      [] OTHER                             -> "none"

\* Deployer_Ubuntu.__init__ / Deployer_CentOS.__init__:
\* settings["qemubin"] = ...; IDeployer.__init__ stores and flattens
Construct ==
    /\ pc = "start"
    /\ LET bin == DeployerQemubin(host.distro)
           flat == flatten_settings(Put(conf, "qemubin", bin))
       IN IF bin = "none"
          THEN /\ pc' = "exit"
               /\ err' = "SystemExit"
               /\ UNCHANGED settings
          ELSE /\ settings' = flat.settings
               /\ pc' = IF flat.ok THEN "deploy" ELSE "exit"
               /\ err' = IF flat.ok THEN "none" ELSE "KeyError"
    /\ UNCHANGED <<conf, host, fs, idx, result, ports, macs, runs>>

\* DeployBegin without the existence check, the directory made with
\* exist_ok
DeployBegin_NoCheck ==
    /\ pc = "deploy"
    /\ fs' = MakeDirs(fs, <<settings["clusterName"]>>)
    /\ pc' = "nodes"
    /\ idx' = 1
    /\ UNCHANGED <<conf, host, settings, result, err, ports, macs, runs>>

\* deploy, up to the for-loop: the existence check and os.mkdir
DeployBegin ==
    /\ pc = "deploy"
    /\ LET clusterName == settings["clusterName"]
       IN IF Exists(fs, <<clusterName>>)
          THEN /\ result' = "False"
               /\ pc' = "exit"
               /\ UNCHANGED <<fs, idx>>
          ELSE /\ fs' = Mkdir(fs, <<clusterName>>)
               /\ pc' = "nodes"
               /\ idx' = 1
               /\ UNCHANGED result
    /\ UNCHANGED <<conf, host, settings, err, ports, macs, runs>>

\* if not "type" in size: size["type"] = "virtio-blk-pci", for every disk of
\* the list gen_startup_script loops over
DefaultDiskTypes(disks) ==
    [n \in 1..Len(disks) |->
        IF Has(disks[n], "type") THEN disks[n]
        ELSE Put(disks[n], "type", "virtio-blk-pci")]

\* The settings after gen_startup_script ran for node n.  The defaulting is
\* done in place on the list object: flatten_settings gave a node without a
\* dataDiskSizes of its own the cluster's list itself (c is the loaded
\* specification), so that list is the cluster's and every such node's.
SettingsAfterScript(s, c, n) ==
    LET inherits(m) == ~Has(c.nodes[m], "dataDiskSizes")
        defaulted(m) == [s.nodes[m] EXCEPT
                            !["dataDiskSizes"] = DefaultDiskTypes(@)]
    IN IF inherits(n)
       THEN [k \in DOMAIN s |->
               IF k = "dataDiskSizes" THEN DefaultDiskTypes(s[k])
               ELSE IF k = "nodes"
                    THEN [m \in 1..Len(s.nodes) |->
                            IF inherits(m) THEN defaulted(m) ELSE s.nodes[m]]
                    ELSE s[k]]
       ELSE [s EXCEPT !.nodes[n] = defaulted(n)]

\* whether create_node on this node reaches requests.get
NeedsDownload(h, node) ==
    /\ Has(node, "name")
    /\ IsUrl(node["imagePath"])
    /\ <<CloudImageDir, basenameurl(node["imagePath"])>> \notin h.files

\* One iteration of the for-loop of deploy over a node of a known guestOs:
\* get_free_port() and the whole of create_node, with what the download, the
\* random generator, the external tools and the kernel return during it.
\* ports and macs record what the running process was handed; they are gone
\* when the process ends.
ProvisionNode ==
    /\ pc = "nodes"
    /\ idx <= Len(settings.nodes)
    /\ LET node == settings.nodes[idx]
           cls == NodeDeployerFor(node["guestOs"])
       IN /\ cls # "none"
          /\ \E fetched \in IF NeedsDownload(host, node) THEN BOOLEAN
                               ELSE {TRUE} :
             LET dirs == PrepareNode(EnterCreateNode(fs, host), node, fetched)
             IN \E draws \in RandIntTriples \X RandIntTriples \X RandIntTriples :
                LET init == WriteCloudInit(dirs, cls, node, draws)
                IN \E fail \in 0..(2 + Len(node["dataDiskSizes"])) :
                   LET disks == BuildImages(init, node, fail)
                   IN \E port \in FreePorts :
                      LET r == write_startup_script(disks, node,
                                                    node["qemubin"], port)
                      IN /\ fs' = r.fs
                         /\ host' = r.host
                         /\ err' = r.err
                         /\ pc' = IF r.err = "none" THEN "nodes" ELSE "exit"
                         /\ idx' = IF r.err = "none" THEN idx + 1 ELSE idx
                         /\ macs' = IF r.err = "none" THEN macs \o r.macs
                                    ELSE <<>>
                         /\ ports' = IF r.err = "none" THEN Append(ports, port)
                                     ELSE <<>>
                         /\ settings' = IF r.err = "none"
                                        THEN SettingsAfterScript(settings, conf, idx)
                                        ELSE settings
    /\ UNCHANGED <<conf, result, runs>>

\* one iteration over a node whose guestOs no branch matches: else: pass
SkipNode ==
    /\ pc = "nodes"
    /\ idx <= Len(settings.nodes)
    /\ NodeDeployerFor(settings.nodes[idx]["guestOs"]) = "none"
    /\ idx' = idx + 1
    /\ UNCHANGED <<conf, host, settings, fs, pc, result, err, ports, macs, runs>>

\* the lines of start_cluster.sh for the nodes from n on, up to the first
\* node without a name (node["name"] raises KeyError there)
RECURSIVE StartLines(_, _)
StartLines(nodes, n) ==
    IF n > Len(nodes) \/ ~Has(nodes[n], "name") THEN <<>>
    ELSE <<[section |-> "line", cd |-> nodes[n]["name"], run |-> "./start.sh"]>>
         \o StartLines(nodes, n + 1)

\* the end of deploy: start_cluster.sh is written and made executable
WriteStartCluster ==
    /\ pc = "nodes"
    /\ idx > Len(settings.nodes)
    /\ LET path == <<settings["clusterName"], "start_cluster.sh">>
           named == \A n \in 1..Len(settings.nodes) : Has(settings.nodes[n], "name")
           written == WriteTo(OpenW(fs, path), path, StartLines(settings.nodes, 1))
       IN IF named
          THEN /\ fs' = ChmodX(written, path)
               /\ result' = "True"
               /\ err' = "none"
          ELSE /\ fs' = written
               /\ err' = "KeyError"
               /\ UNCHANGED result
    /\ pc' = "exit"
    /\ ports' = <<>>
    /\ macs' = <<>>
    /\ UNCHANGED <<conf, host, settings, idx, runs>>

\* the command is started again in the same working directory with the same
\* configuration file: a new process loads the specification afresh
Rerun ==
    /\ pc = "exit"
    /\ runs < MaxRuns
    /\ runs' = runs + 1
    /\ pc' = "start"
    /\ settings' = conf
    /\ idx' = 0
    /\ result' = "none"
    /\ err' = "none"
    /\ UNCHANGED <<conf, host, fs, ports, macs>>

Next == Construct \/ DeployBegin \/ ProvisionNode \/ SkipNode
        \/ WriteStartCluster \/ Rerun

----------------------------------------------------------------------------
(* The cluster specifications and hosts explored *)

\* the sequences over S of length at most n
SeqsUpTo(S, n) == UNION {[1..k -> S] : k \in 0..n}

KeyLists == SeqsUpTo({"keyA", "keyB"}, MaxKeys)

DiskLists == SeqsUpTo({[size |-> "10G"], [size |-> "10G", type |-> "nvme"]},
                      MaxDisks)

GuestOsValues ==
    {"Ubuntu", "Debian GNU/Linux", "CentOS7", "CentOS8", "Alma8", "Alma9",
     "Fedora"}

LocalImage == <<"images", "base.img">>
CachedImage == <<CloudImageDir, "base.img">>

\* an image path together with the image files on the host: a local file,
\* a URL not yet in the cache, a URL already in the cache, a bare name found
\* in the cache, and a name found nowhere
ImageCases ==
    {[imagePath |-> LocalImage, files |-> {LocalImage}],
     [imagePath |-> <<"https:", "", "mirror", "base.img">>, files |-> {}],
     [imagePath |-> <<"https:", "", "mirror", "base.img">>,
      files |-> {CachedImage}],
     [imagePath |-> <<"base.img">>, files |-> {CachedImage}],
     [imagePath |-> <<"missing.img">>, files |-> {LocalImage}]}

\* the keys a cluster specification is written with (qemubin is set by the
\* constructor)
ClusterKeys == InheritKeySet \ {"qemubin"}

BaseCluster ==
    [clusterName |-> "cluster", domainName |-> <<"example", ".", "net", ".">>,
     imagePath |-> LocalImage, systemDiskSize |-> "20G",
     dataDiskSizes |-> <<[size |-> "10G"]>>, cpu |-> 2, mem |-> "4G",
     mtu |-> 1500, gateway |-> "10.1.0.1", nameserver |-> "10.1.0.2",
     guestOs |-> "Ubuntu"]
    @@ ("authorized-keys" :> <<"keyA">>)

BaseNode(i) ==
    [name |-> "node" \o ToString(i), ipAddress |-> "10.1.0.6" \o ToString(i)]

BaseNodes(n) == [i \in 1..n |-> BaseNode(i)]

BaseHost == [files |-> {LocalImage}, root |-> TRUE, distro |-> "Ubuntu"]

GuestOsVariants ==
    {[cluster |-> Put(BaseCluster, "guestOs", g), files |-> {LocalImage}] :
        g \in GuestOsValues}

\* the base cluster changed in one respect
ClusterVariants ==
    GuestOsVariants
    \cup {[cluster |-> Put(BaseCluster, "imagePath", c.imagePath),
           files |-> c.files] : c \in ImageCases}
    \cup {[cluster |-> Put(BaseCluster, "authorized-keys", k),
           files |-> {LocalImage}] : k \in KeyLists}
    \cup {[cluster |-> Put(BaseCluster, "dataDiskSizes", d),
           files |-> {LocalImage}] : d \in DiskLists}
    \cup {[cluster |-> Without(BaseCluster, k), files |-> {LocalImage}] :
            k \in ClusterKeys}

\* node j of a node list changed in one respect
NodeChanges == {"no-name", "no-ipAddress", "own-guestOs", "other-guestOs",
                "own-keys", "same-name"}

ChangeNode(nodes, j, change) ==
    [nodes EXCEPT ![j] =
        CASE change = "no-name"       -> Without(@, "name")
          [] change = "no-ipAddress"  -> Without(@, "ipAddress")
          [] change = "own-guestOs"   -> Put(@, "guestOs", "CentOS8")
          [] change = "other-guestOs" -> Put(@, "guestOs", "Fedora")
          [] change = "own-keys"      -> Put(@, "authorized-keys",
                                             <<"keyB", "keyA">>)
          [] change = "same-name"     -> Put(@, "name", nodes[1]["name"])]

NodeLists ==
    {BaseNodes(n) : n \in NodeCounts}
    \cup {ChangeNode(BaseNodes(t[1]), t[2], t[3]) :
            t \in {u \in NodeCounts \X NodeCounts \X NodeChanges :
                      /\ u[2] <= u[1]
                      /\ u[3] = "same-name" => u[2] > 1}}

\* the base host changed in one respect
HostVariants ==
    {BaseHost, [BaseHost EXCEPT !.root = FALSE],
     [BaseHost EXCEPT !.distro = "rocky"],
     [BaseHost EXCEPT !.distro = "Fedora"]}

\* Every cluster variant with the unchanged node lists, every guestOs with
\* every node list, and the base cluster with every node list on every host
\* variant; and a specification without the nodes key.
Scenarios ==
    {[conf |-> Put(v.cluster, "nodes", BaseNodes(n)),
      host |-> [BaseHost EXCEPT !.files = v.files]] :
        v \in ClusterVariants, n \in NodeCounts}
    \cup {[conf |-> Put(v.cluster, "nodes", n),
           host |-> [BaseHost EXCEPT !.files = v.files]] :
            v \in GuestOsVariants, n \in NodeLists}
    \cup {[conf |-> Put(BaseCluster, "nodes", n), host |-> h] :
            n \in NodeLists, h \in HostVariants}
    \cup {[conf |-> BaseCluster, host |-> BaseHost]}

\* the process state at the start of the deploy command
Started(c, h) ==
    /\ conf = c
    /\ host = h
    /\ settings = c
    /\ fs = <<>>
    /\ pc = "start"
    /\ idx = 0
    /\ result = "none"
    /\ err = "none"
    /\ ports = <<>>
    /\ macs = <<>>
    /\ runs = 1

Init == \E s \in Scenarios : Started(s.conf, s.host)

Spec == Init /\ [][Next]_vars

----------------------------------------------------------------------------
(* flatten_settings on its own: the constructor, then flatten_settings     *)
(* once more on the deployer it built                                      *)

\* a value a node sets itself for an inheritable key, different from the
\* cluster's
OwnValue(key) ==
    CASE key = "domainName"      -> <<".", "lab", ".">>
      [] key = "imagePath"       -> <<"images", "node.img">>
      [] key = "dataDiskSizes"   -> <<[size |-> "5G"]>>
      [] key = "authorized-keys" -> <<"keyN">>
      [] key = "cpu"             -> 8
      [] key = "mtu"             -> 9000
      [] OTHER                   -> "node-" \o key

\* the sets of inheritable keys a node sets itself
OwnKeySets == {{}} \cup {{k} : k \in InheritKeySet}

OwnNode(i, keys) ==
    [k \in keys \cup {"name", "ipAddress"} |->
        IF k \in keys THEN OwnValue(k) ELSE BaseNode(i)[k]]

\* the base cluster with at most one key left out, one or two nodes that
\* each set at most one inheritable key themselves
FlattenScenarios ==
    {[conf |-> Put(c, "nodes", nodes), host |-> h] :
        c \in {BaseCluster} \cup {Without(BaseCluster, k) : k \in ClusterKeys},
        nodes \in {<<OwnNode(1, a)>> : a \in OwnKeySets}
                  \cup {<<OwnNode(1, t[1]), OwnNode(2, t[2])>> :
                          t \in OwnKeySets \X OwnKeySets},
        h \in {BaseHost, [BaseHost EXCEPT !.distro = "rocky"]}}

InitFlatten == \E s \in FlattenScenarios : Started(s.conf, s.host)

\* flatten_settings called again on the constructed deployer
Reflatten ==
    /\ pc = "deploy"
    /\ settings' = flatten_settings(settings).settings
    /\ pc' = "flattened"
    /\ UNCHANGED <<conf, host, fs, idx, result, err, ports, macs, runs>>

NextFlatten == Construct \/ Reflatten

SpecFlatten == InitFlatten /\ [][NextFlatten]_vars

\* what flattening has to put on node n for key: the node's own value when
\* the specification gives it one, the cluster-level value otherwise
ClusterLevel(key) ==
    IF key = "qemubin" THEN DeployerQemubin(host.distro) ELSE conf[key]

Resolved(n, key) ==
    IF Has(conf.nodes[n], key) THEN conf.nodes[n][key] ELSE ClusterLevel(key)

\* a key that is at neither level of the loaded specification
SomeKeyNowhere ==
    \/ ~Has(conf, "nodes")
    \/ \E n \in 1..Len(conf.nodes), k \in ClusterKeys :
          ~Has(conf.nodes[n], k) /\ ~Has(conf, k)

\* C4: flattening is total.  Once the constructor has returned, every node
\* has every inheritable key, with its own value where it had one and the
\* cluster-level value otherwise; and when some key is at neither level the
\* constructor does not return but ends in a KeyError.
FlattenTotal ==
    /\ pc \in {"deploy", "flattened"} =>
          /\ ~SomeKeyNowhere
          /\ \A n \in 1..Len(settings.nodes) : \A k \in InheritKeySet :
                /\ Has(settings.nodes[n], k)
                /\ settings.nodes[n][k] = Resolved(n, k)
    /\ (SomeKeyNowhere /\ pc # "start") => (pc = "exit" /\ err = "KeyError")

\* C4 witness: the constructor returned for a two-node specification in
\* which a node kept a value of its own and inherited the rest
FlattenTotalWitness ==
    /\ pc = "deploy"
    /\ Len(settings.nodes) = 2
    /\ \E n \in 1..2, k \in ClusterKeys :
          /\ Has(conf.nodes[n], k)
          /\ Has(conf, k)
          /\ settings.nodes[n][k] = OwnValue(k)
          /\ settings.nodes[n][k] # conf[k]
          /\ \E j \in ClusterKeys \ {k} :
                /\ ~Has(conf.nodes[n], j)
                /\ Has(conf, j)
                /\ settings.nodes[n][j] = conf[j]

\* C5: flattening is idempotent.  flatten_settings applied to a deployer
\* whose constructor already flattened it leaves every node record as it was.
FlattenIdempotent ==
    [][(pc = "deploy" /\ pc' = "flattened") => settings'.nodes = settings.nodes]_vars

\* C5 witness: flatten_settings has been applied a second time to a
\* specification in which a node set a key itself
FlattenIdempotentWitness ==
    /\ pc = "flattened"
    /\ \E n \in 1..Len(conf.nodes), k \in ClusterKeys : Has(conf.nodes[n], k)

----------------------------------------------------------------------------
(* Claims about deploy *)

\* C1: deploy is not re-entrant.  A deploy that finds the cluster directory
\* in place returns False and leaves every file and directory as it is.
DeployNotReentrant ==
    [][(pc = "deploy" /\ Exists(fs, <<settings["clusterName"]>>))
        => (fs' = fs /\ result' = "False" /\ pc' = "exit")]_vars

\* C1 witness: the second deploy of a cluster whose first deploy succeeded
\* has returned False
DeployNotReentrantWitness ==
    /\ runs = 2
    /\ pc = "exit"
    /\ result = "False"
    /\ Exists(fs, <<settings["clusterName"], "start_cluster.sh">>)
    /\ Exists(fs, <<settings["clusterName"], "node2", "start.sh">>)

\* C2: the ports handed to the nodes of one deploy run are pairwise distinct.
PortsDistinct ==
    \A i \in DOMAIN ports : \A j \in DOMAIN ports : i # j => ports[i] # ports[j]

\* C3: the MACs generated during one deploy run are pairwise distinct,
\* within a node and across nodes.
MacsDistinct ==
    \A i \in DOMAIN macs : \A j \in DOMAIN macs : i # j => macs[i] # macs[j]

----------------------------------------------------------------------------
(* Claims about the artifacts of a node.  They are read off the files at  *)
(* the moment the node's create_node has returned: node n is the node     *)
(* the for-loop has just finished.                                        *)

NodeIndexes == IF Has(settings, "nodes") THEN 1..Len(settings.nodes) ELSE {}

JustProvisioned(n) ==
    /\ n = idx - 1
    /\ n >= 1
    /\ pc = "nodes" \/ result = "True"
    /\ NodeDeployerFor(settings.nodes[n]["guestOs"]) # "none"

ArtifactOf(n, name) ==
    fs[CloudInitDir(settings.nodes[n]) \o <<name>>].data

StartScriptOf(n) == fs[NodeDir(settings.nodes[n]) \o <<"start.sh">>].data[1]

NetplanGuests == {"Ubuntu", "Debian GNU/Linux", "CentOS7"}
CentOS8Guests == {"CentOS8", "Alma8", "Alma9"}

\* network-config is one document whose matched MAC is the MAC of mynet0
NetconfMatchesScript(n) ==
    /\ Len(ArtifactOf(n, "network-config")) = 1
    /\ ArtifactOf(n, "network-config")[1].ethernets.id0.match.macaddress
         = StartScriptOf(n).nics.mynet0.mac

\* C6 as stated: for every provisioned node, the MAC matched in its
\* network-config equals the MAC bound to mynet0 in its launch script.
NetconfMacEverywhere ==
    \A n \in NodeIndexes : JustProvisioned(n) => NetconfMatchesScript(n)

\* C6 amended: for every provisioned node of a guest OS that gets a netplan
\* network-config (Ubuntu, Debian GNU/Linux, CentOS7), the MAC matched in the
\* network-config equals the MAC bound to mynet0 in the launch script.
NetconfMacNetplan ==
    \A n \in NodeIndexes :
        (JustProvisioned(n) /\ settings.nodes[n]["guestOs"] \in NetplanGuests)
            => NetconfMatchesScript(n)

\* C6 witness: a netplan node has been provisioned with three MACs that are
\* not all the same
NetconfMacWitness ==
    \E n \in NodeIndexes :
        /\ JustProvisioned(n)
        /\ settings.nodes[n]["guestOs"] \in NetplanGuests
        /\ StartScriptOf(n).nics.mynet0.mac # StartScriptOf(n).nics.mynet1.mac
        /\ NetconfMatchesScript(n)

\* the cloud-config document of user-data
UserDoc(n) == ArtifactOf(n, "user-data")[2]

\* exactly two accounts, a sudo-capable user that is not root and root, each
\* with the authorized-keys list `keys`
TwoAccountsWith(n, keys) ==
    /\ Len(UserDoc(n).users) = 2
    /\ UserDoc(n).users[1].name # "root"
    /\ UserDoc(n).users[1].groups = "sudo"
    /\ UserDoc(n).users[1].sudo = "ALL=(ALL) NOPASSWD:ALL"
    /\ UserDoc(n).users[2].name = "root"
    /\ \A u \in 1..2 : UserDoc(n).users[u]["ssh-authorized-keys"] = keys

\* C7 as stated: user-data has exactly two accounts, and each account's
\* authorized-keys list is the cluster's configured list.
UserKeysAreClusterKeys ==
    \A n \in NodeIndexes :
        JustProvisioned(n) => TwoAccountsWith(n, conf["authorized-keys"])

\* C7 amended: user-data has exactly two accounts, and each account's
\* authorized-keys list is the list flattening resolved for the node: the
\* node's own list when the specification gives it one, the cluster's
\* configured list otherwise, in the configured order.
UserKeysAreResolvedKeys ==
    \A n \in NodeIndexes :
        JustProvisioned(n) => TwoAccountsWith(n, Resolved(n, "authorized-keys"))

\* C7 witness: a node has been provisioned from a cluster list of two
\* different keys
UserKeysWitness ==
    \E n \in NodeIndexes :
        /\ JustProvisioned(n)
        /\ ~Has(conf.nodes[n], "authorized-keys")
        /\ conf["authorized-keys"] = <<"keyB", "keyA">>
        /\ TwoAccountsWith(n, <<"keyB", "keyA">>)

\* C8: a CentOS8 node gets a meta-data with a static network-interfaces
\* block, a user-data ending in the bootcmd that connects eth0 and an empty
\* network-config; an Alma8 or Alma9 node gets the three artifacts the
\* CentOS8 class generates from the same settings.
CentOS8Family ==
    \A n \in NodeIndexes :
        (JustProvisioned(n) /\ settings.nodes[n]["guestOs"] \in CentOS8Guests)
        => LET ns == settings.nodes[n]
               asCentOS8 == Put(ns, "guestOs", "CentOS8")
               mac == StartScriptOf(n).nics.mynet0.mac
               meta == ArtifactOf(n, "meta-data")
               user == ArtifactOf(n, "user-data")
           IN /\ Len(meta) = 1
              /\ meta[1].section = "network-interfaces"
              /\ meta[1].iface = "eth0 inet static"
              /\ meta[1].address = ns["ipAddress"]
              /\ meta[1].gateway = ns["gateway"]
              /\ user[Len(user)].section = "bootcmd"
              /\ user[Len(user)].cmds = <<"nmcli device connect eth0">>
              /\ ArtifactOf(n, "network-config") = <<>>
              /\ meta = gen_meta_CentOS8(asCentOS8, mac).text
              /\ SubSeq(user, 2, Len(user)) = gen_user_CentOS8(asCentOS8, mac).text
              /\ ArtifactOf(n, "network-config")
                   = gen_netconf_CentOS8(asCentOS8, mac).text

\* C8 witness: an Alma9 node has been provisioned
CentOS8FamilyWitness ==
    \E n \in NodeIndexes :
        /\ JustProvisioned(n)
        /\ settings.nodes[n]["guestOs"] = "Alma9"
        /\ Len(ArtifactOf(n, "meta-data")) = 1

----------------------------------------------------------------------------
(* Claims about errors *)

\* the image path create_node resolves for a node on the present host
ResolvedImageOf(ns) ==
    IF IsUrl(ns["imagePath"])
    THEN <<CloudImageDir, basenameurl(ns["imagePath"])>>
    ELSE IF ns["imagePath"] \in host.files THEN ns["imagePath"]
    ELSE <<CloudImageDir>> \o ns["imagePath"]

\* C9: a node whose resolved base image does not exist on the host gets no
\* node directory.
MissingImageStopsNode ==
    \A n \in NodeIndexes :
        (/\ Has(settings.nodes[n], "name")
         /\ Has(settings.nodes[n], "clusterName")
         /\ Has(settings.nodes[n], "imagePath")
         /\ ResolvedImageOf(settings.nodes[n]) \notin host.files)
        => ~Exists(fs, NodeDir(settings.nodes[n]))

\* C10: a deployment that ends with a missing-key error has created no
\* directory.
KeyErrorBeforeAnyDirectory ==
    (pc = "exit" /\ err = "KeyError") => DOMAIN fs = {}

----------------------------------------------------------------------------
(* Claims about the order of deploy *)

StartPath(ns) == NodeDir(ns) \o <<"start.sh">>
IsoPath(ns) == CloudInitDir(ns) \o <<"cloud-init-provisioning.iso">>
SystemDiskPath(ns) == NodeDir(ns) \o <<"system.qcow2">>
DataDiskPath(ns, i) == NodeDir(ns) \o <<"data" \o ToString(i) \o ".qcow2">>
StartClusterPath == <<settings["clusterName"], "start_cluster.sh">>

\* exe is the only place of a deploy run that raises ValueError
ExeFailed == pc = "exit" /\ err = "ValueError"

\* The step in which an exe call of node idx fails: the run ends there
\* without a result, the node's start.sh is not written (what is at its path
\* stays as it was), a tool that comes after the failed one has not run,
\* start_cluster.sh is not written and nothing is removed.
ExeFailureStep ==
    LET ns == settings.nodes[idx]
    IN /\ pc' = "exit"
       /\ idx' = idx
       /\ result' = "none"
       /\ IF Exists(fs, StartPath(ns))
          THEN fs'[StartPath(ns)] = fs[StartPath(ns)]
          ELSE ~Exists(fs', StartPath(ns))
       /\ ~Exists(fs', IsoPath(ns)) => ~Exists(fs', SystemDiskPath(ns))
       /\ ~Exists(fs', SystemDiskPath(ns)) => ~Exists(fs', DataDiskPath(ns, 1))
       /\ \A i \in 1..Len(ns["dataDiskSizes"]) :
             ~Exists(fs', DataDiskPath(ns, i)) => ~Exists(fs', DataDiskPath(ns, i + 1))
       /\ ~Exists(fs', StartClusterPath)
       /\ \A p \in DOMAIN fs : Exists(fs', p)

\* The state the failed run is left in: no result, no start_cluster.sh, the
\* nodes provisioned before the failing one still have their directory and
\* start.sh, and a node after it has no directory (unless it shares its name
\* with a node up to the failing one).
ExeFailureState ==
    /\ result = "none"
    /\ ~Exists(fs, StartClusterPath)
    /\ \A n \in 1..(idx - 1) :
          NodeDeployerFor(settings.nodes[n]["guestOs"]) # "none"
            => /\ Exists(fs, NodeDir(settings.nodes[n]))
               /\ Exists(fs, StartPath(settings.nodes[n]))
    /\ \A m \in (idx + 1)..Len(settings.nodes) :
          (/\ Has(settings.nodes[m], "name")
           /\ \A n \in 1..idx : Has(settings.nodes[n], "name")
                 => settings.nodes[n]["name"] # settings.nodes[m]["name"])
            => ~Exists(fs, NodeDir(settings.nodes[m]))

\* C11: a non-zero exit of cloud-localds or qemu-img during a node's
\* create_node ends the run: the node's later steps do not run (no start.sh
\* is written), no later node is provisioned, start_cluster.sh is not
\* written, and what earlier nodes left on disk stays.
ExeFailureFatal ==
    /\ [][(pc = "nodes" /\ err' = "ValueError") => ExeFailureStep]_vars
    /\ [](ExeFailed => ExeFailureState)

\* C11 witness: the second of two differently named nodes failed in an exe
\* call after the first was provisioned; it has a directory and no start.sh
ExeFailureFatalWitness ==
    /\ ExeFailed
    /\ idx = 2
    /\ settings.nodes[1]["name"] # settings.nodes[2]["name"]
    /\ Exists(fs, StartPath(settings.nodes[1]))
    /\ Exists(fs, NodeDir(settings.nodes[2]))
    /\ ~Exists(fs, StartPath(settings.nodes[2]))

\* C12: when create_node runs for a node whose directory already exists,
\* every artifact already in that directory (cloud-init files, disks,
\* start.sh) is left as it is.
NodeNeverOverwritten ==
    [][(/\ pc = "nodes"
        /\ idx <= Len(settings.nodes)
        /\ Has(settings.nodes[idx], "name")
        /\ Exists(fs, NodeDir(settings.nodes[idx])))
       => \A p \in DOMAIN fs :
            (Len(p) >= 3 /\ SubSeq(p, 1, 2) = NodeDir(settings.nodes[idx]))
              => (Exists(fs', p) /\ fs'[p] = fs[p])]_vars

\* start_cluster.sh exists only once the for-loop over the nodes is over,
\* and after a deploy that returned True it holds one line per node, in the
\* order of the specification, that changes into the directory named after
\* the node and runs ./start.sh
StartClusterListsNodes ==
    /\ (pc = "nodes" /\ Has(settings, "clusterName"))
          => ~Exists(fs, StartClusterPath)
    /\ result = "True"
          => /\ idx > Len(settings.nodes)
             /\ Exists(fs, StartClusterPath)
             /\ Len(fs[StartClusterPath].data) = Len(settings.nodes)
             /\ \A n \in 1..Len(settings.nodes) :
                   /\ fs[StartClusterPath].data[n].cd = settings.nodes[n]["name"]
                   /\ fs[StartClusterPath].data[n].run = "./start.sh"

\* C13: on a deploy that reports success, start_cluster.sh is written after
\* all nodes were dispatched and has one entry per node in specification
\* order, and every node it refers to has a node directory with a start.sh.
StartClusterRefersToNodes ==
    /\ StartClusterListsNodes
    /\ result = "True"
          => \A n \in 1..Len(fs[StartClusterPath].data) :
                LET dir == <<settings["clusterName"], fs[StartClusterPath].data[n].cd>>
                IN /\ Exists(fs, dir)
                   /\ Exists(fs, dir \o <<"start.sh">>)

====
